---- MODULE Spec2Model ----
(***************************************************************************)
(* A model of the users REST service: the five controller operations of   *)
(* the users controller (list, get-by-id, create, update, delete), the    *)
(* liveness route of app.js, the `users` table they read and write, and   *)
(* the connection pool they share.  Every request is one asynchronous     *)
(* task; a task is suspended only at an `await`, so each action below is  *)
(* the code that runs between two awaits.                                  *)
(***************************************************************************)
EXTENDS Integers, Sequences, FiniteSets, TLC

VARIABLES users, nextId, connectionLimit, held, pc, req, user, resp

vars == <<users, nextId, connectionLimit, held, pc, req, user, resp>>

(* ---------------------------------------------------------------- bounds *)

\* Number of requests the server accepts in one behaviour.
MaxRequests == 2

Req == 1..MaxRequests

(* ------------------------------------------------------------- constants *)

\* The pool's fixed maximum of concurrent connections is set where the pool
\* is constructed (db.js); the model covers a pool of one connection and a
\* pool of two.
PoolLimits == {1, 2}

\* A field that is absent from the JSON body (JavaScript's undefined).
NONE == "<undefined>"

\* JavaScript truthiness of a body field: undefined and "" are falsy.
Truthy(v) == v \notin {NONE, ""}

\* The path parameter :id is a string.
ParamIds == {"1", "3"}

\* MySQL compares the string parameter with the INT column by its number.
ParamToId(p) ==
  CASE p = "1" -> 1
    [] p = "3" -> 3
    [] OTHER -> 0

\* Names and emails a request body may carry.
BodyNames == {NONE, "", "Test User"}

BodyEmails == {NONE, "jane@example.com", "new@example.com"}

Ops == {"root", "list", "get", "create", "update", "delete"}

\* Failures of the storage layer other than a uniqueness violation.
ConnectError == "connect ECONNREFUSED"

QueryError == "Lock wait timeout exceeded"

(* ----------------------------------------------------- the users table *)

\* init.sql: the two seed rows, inserted when the database is created.
SeedUsers ==
  << [id |-> 1, name |-> "John Doe", email |-> "john@example.com", created_at |-> 0],
     [id |-> 2, name |-> "Jane Smith", email |-> "jane@example.com", created_at |-> 0] >>

\* SelectById with the WHERE clause lost: every row is selected.
SelectById_NoWhere(tbl, id) == tbl

\* SELECT * FROM users WHERE id = ?
SelectById(tbl, id) == SelectSeq(tbl, LAMBDA row : row.id = id)

\* DupEmail that takes the row being updated for a duplicate of itself.
DupEmail_AnyRow(tbl, id, email) == \E i \in 1..Len(tbl) : tbl[i].email = email

\* DupEmail without the UNIQUE index: no write is ever refused.
DupEmail_NoIndex(tbl, id, email) == FALSE

\* The UNIQUE index on email: another row than `id` already has this email.
DupEmail(tbl, id, email) == \E i \in 1..Len(tbl) : tbl[i].email = email /\ tbl[i].id # id

\* CURRENT_TIMESTAMP, as a logical clock: the number of requests accepted.
Now == Cardinality({r \in Req : pc[r] # "idle"})

\* InsertRow with the two placeholders bound in the wrong order.
InsertRow_Swapped(tbl, id, name, email, ts) ==
  Append(tbl, [id |-> id, name |-> email, email |-> name, created_at |-> ts])

\* InsertRow of a table that numbers a new row by the count of rows instead
\* of AUTO_INCREMENT: the identifier of a deleted row is handed out again.
InsertRow_CountId(tbl, id, name, email, ts) ==
  Append(tbl, [id |-> Len(tbl) + 1, name |-> name, email |-> email, created_at |-> ts])

\* INSERT INTO users (name, email) VALUES (?, ?): the new table.
InsertRow(tbl, id, name, email, ts) ==
  Append(tbl, [id |-> id, name |-> name, email |-> email, created_at |-> ts])

\* SetFields writing both columns whether or not the body supplied them.
SetFields_All(row, name, email) == [row EXCEPT !.name = name, !.email = email]

\* The SET list the controller builds: only truthy fields are written.
SetFields(row, name, email) ==
  [row EXCEPT !.name = IF Truthy(name) THEN name ELSE @,
              !.email = IF Truthy(email) THEN email ELSE @]

\* UPDATE users SET ... WHERE id = ?: the new table.
UpdateRows(tbl, id, name, email) ==
  [i \in 1..Len(tbl) |-> IF tbl[i].id = id THEN SetFields(tbl[i], name, email) ELSE tbl[i]]

\* DeleteRows without the WHERE clause: every row goes.
DeleteRows_NoWhere(tbl, id) == << >>

\* DELETE FROM users WHERE id = ?: the new table.
DeleteRows(tbl, id) == SelectSeq(tbl, LAMBDA row : row.id # id)

\* AffectedRows that never reports zero.
AffectedRows_One(tbl, id) == 1

\* affectedRows of an UPDATE or DELETE ... WHERE id = ? (rows matched).
AffectedRows(tbl, id) == Len(SelectById(tbl, id))

(* ------------------------------------------------------------ responses *)

Success(code, message, data) ==
  [code |-> code, status |-> "success", message |-> message, data |-> data]

\* Failure with the other word in use for a refused request.
Failure_Fail(code, message) ==
  [code |-> code, status |-> "fail", message |-> message, data |-> << >>]

Failure(code, message) ==
  [code |-> code, status |-> "error", message |-> message, data |-> << >>]

\* res.status(..).json(..): one more response written for request r.
Send(r, response) == resp' = [resp EXCEPT ![r] = Append(@, response)]

\* connection.release(): the connection goes back to the pool.
Release(r) == held' = held \ {r}

(* ----------------------------------------------------------------- Init *)

Init ==
  /\ users = SeedUsers
  /\ nextId = 3
  /\ connectionLimit \in PoolLimits
  /\ held = {}
  /\ pc = [r \in Req |-> "idle"]
  /\ req = [r \in Req |-> [op |-> "root", id |-> NONE, name |-> NONE, email |-> NONE]]
  /\ user = [r \in Req |-> << >>]
  /\ resp = [r \in Req |-> << >>]

(* -------------------------------------------------------------- actions *)

\* The request the router hands to a handler: fields the route does not
\* read are absent.
Request(op, id, name, email) ==
  [op |-> op,
   id |-> IF op \in {"get", "update", "delete"} THEN id ELSE NONE,
   name |-> IF op \in {"create", "update"} THEN name ELSE NONE,
   email |-> IF op \in {"create", "update"} THEN email ELSE NONE]

\* Invalid with updateUser's presence check left out.
Invalid_NoUpdateCheck(q) == q.op = "create" /\ (~Truthy(q.name) \/ ~Truthy(q.email))

\* Invalid with createUser's check joined by "and": one field is enough.
Invalid_CreateEither(q) ==
  \/ q.op = "create" /\ ~Truthy(q.name) /\ ~Truthy(q.email)
  \/ q.op = "update" /\ ~Truthy(q.name) /\ ~Truthy(q.email)

\* The presence check a handler makes before its first await.
Invalid(q) ==
  \/ q.op = "create" /\ (~Truthy(q.name) \/ ~Truthy(q.email))
  \/ q.op = "update" /\ ~Truthy(q.name) /\ ~Truthy(q.email)

InvalidMessage(q) ==
  IF q.op = "create" THEN "Name and email are required"
  ELSE "At least one field (name or email) is required"

\* GET /: the liveness route answers at once.
Root(r) ==
  /\ pc[r] = "idle"
  /\ \A s \in Req : s < r => pc[s] # "idle"
  /\ req' = [req EXCEPT ![r] = Request("root", NONE, NONE, NONE)]
  /\ Send(r, Success(200, "app running successfully!", << >>))
  /\ pc' = [pc EXCEPT ![r] = "done"]
  /\ UNCHANGED <<connectionLimit, users, nextId, held, user>>

\* A request for /users arrives and its handler runs up to its first await:
\* a body that fails the presence check is answered 400 at once, any other
\* request goes on to wait for a connection.
Accept(r) ==
  /\ pc[r] = "idle"
  /\ \A s \in Req : s < r => pc[s] # "idle"
  /\ \E op \in Ops \ {"root"}, id \in ParamIds, name \in BodyNames, email \in BodyEmails :
       LET q == Request(op, id, name, email) IN
       /\ req' = [req EXCEPT ![r] = q]
       /\ IF Invalid(q)
          THEN /\ Send(r, Failure(400, InvalidMessage(q)))
               /\ pc' = [pc EXCEPT ![r] = "done"]
          ELSE /\ pc' = [pc EXCEPT ![r] = "acquire"]
               /\ UNCHANGED resp
  /\ UNCHANGED <<connectionLimit, users, nextId, held, user>>

\* await pool.getConnection() resolves: a connection is free.
\* GetConnection of a pool that opens a new connection whenever asked.
GetConnection_NoLimit(r) ==
  /\ pc[r] = "acquire"
  /\ held' = held \cup {r}
  /\ pc' = [pc EXCEPT ![r] = IF req[r].op = "update" THEN "select" ELSE "query"]
  /\ UNCHANGED <<connectionLimit, users, nextId, req, user, resp>>

GetConnection(r) ==
  /\ pc[r] = "acquire"
  /\ Cardinality(held) < connectionLimit
  /\ held' = held \cup {r}
  /\ pc' = [pc EXCEPT ![r] = IF req[r].op = "update" THEN "select" ELSE "query"]
  /\ UNCHANGED <<connectionLimit, users, nextId, req, user, resp>>

\* await pool.getConnection() rejects, the pool failing to open a connection:
\* the catch block answers 500.  A request that waits for a connection to
\* be released is never rejected (the pool sets no timeout).
GetConnectionFail(r) ==
  /\ pc[r] = "acquire"
  /\ Cardinality(held) < connectionLimit
  /\ Send(r, Failure(500, ConnectError))
  /\ pc' = [pc EXCEPT ![r] = "done"]
  /\ UNCHANGED <<connectionLimit, users, nextId, held, req, user>>

\* QueryFail of a catch block that takes every error of the statement for a
\* uniqueness violation.
QueryFail_Conflict(r) ==
  /\ pc[r] \in {"query", "select", "write"}
  /\ \E fatal \in BOOLEAN : held' = IF fatal THEN held \ {r} ELSE held
  /\ Send(r, Failure(409, "Email already exists"))
  /\ pc' = [pc EXCEPT ![r] = "done"]
  /\ UNCHANGED <<connectionLimit, users, nextId, req, user>>

\* await connection.query(..) rejects with an error that is no uniqueness
\* violation: the catch block answers 500 and does not release.  A fatal
\* error makes the pool discard the connection; after any other error the
\* connection stays checked out.
QueryFail(r) ==
  /\ pc[r] \in {"query", "select", "write"}
  /\ \E fatal \in BOOLEAN : held' = IF fatal THEN held \ {r} ELSE held
  /\ Send(r, Failure(500, QueryError))
  /\ pc' = [pc EXCEPT ![r] = "done"]
  /\ UNCHANGED <<connectionLimit, users, nextId, req, user>>

\* ListQuery with ORDER BY id DESC: the newest user first.
ListQuery_Newest(r) ==
  /\ pc[r] = "query" /\ req[r].op = "list"
  /\ Release(r)
  /\ Send(r, Success(200, "", [i \in 1..Len(users) |-> users[Len(users) + 1 - i]]))
  /\ pc' = [pc EXCEPT ![r] = "done"]
  /\ UNCHANGED <<connectionLimit, users, nextId, req, user>>

\* getAllUsers: SELECT * FROM users, release, 200.
ListQuery(r) ==
  /\ pc[r] = "query" /\ req[r].op = "list"
  /\ Release(r)
  /\ Send(r, Success(200, "", users))
  /\ pc' = [pc EXCEPT ![r] = "done"]
  /\ UNCHANGED <<connectionLimit, users, nextId, req, user>>

\* getUserById: SELECT by id, release, 404 when no row matches, else 200.
GetQuery(r) ==
  /\ pc[r] = "query" /\ req[r].op = "get"
  /\ LET found == SelectById(users, ParamToId(req[r].id)) IN
       /\ Release(r)
       /\ IF Len(found) = 0
          THEN Send(r, Failure(404, "User not found"))
          ELSE Send(r, Success(200, "", <<found[1]>>))
  /\ pc' = [pc EXCEPT ![r] = "done"]
  /\ UNCHANGED <<connectionLimit, users, nextId, req, user>>

\* CreateQuery that replaces the row owning the email instead of refusing
\* (INSERT ... ON DUPLICATE KEY UPDATE).
CreateQuery_Upsert(r) ==
  /\ pc[r] = "query" /\ req[r].op = "create"
  /\ users' = IF DupEmail(users, 0, req[r].email)
              THEN [i \in 1..Len(users) |->
                      IF users[i].email = req[r].email
                      THEN [users[i] EXCEPT !.name = req[r].name] ELSE users[i]]
              ELSE InsertRow(users, nextId, req[r].name, req[r].email, Now)
  /\ nextId' = nextId + 1
  /\ Release(r)
  /\ Send(r, Success(201, "",
          <<[id |-> nextId, name |-> req[r].name, email |-> req[r].email]>>))
  /\ pc' = [pc EXCEPT ![r] = "done"]
  /\ UNCHANGED <<connectionLimit, req, user>>

\* createUser: INSERT, release, 201; a uniqueness violation is caught and
\* answered 409.
CreateQuery(r) ==
  /\ pc[r] = "query" /\ req[r].op = "create"
  /\ IF DupEmail(users, 0, req[r].email)
     THEN /\ Send(r, Failure(409, "Email already exists"))
          /\ UNCHANGED <<users, nextId, held>>
     ELSE /\ users' = InsertRow(users, nextId, req[r].name, req[r].email, Now)
          /\ nextId' = nextId + 1
          /\ Release(r)
          /\ Send(r, Success(201, "",
                  <<[id |-> nextId, name |-> req[r].name, email |-> req[r].email]>>))
  /\ pc' = [pc EXCEPT ![r] = "done"]
  /\ UNCHANGED <<connectionLimit, req, user>>

\* UpdateSelect without the existence check: the row read is kept and the
\* UPDATE is always attempted.
UpdateSelect_NoCheck(r) ==
  /\ pc[r] = "select"
  /\ user' = [user EXCEPT ![r] = SelectById(users, ParamToId(req[r].id))]
  /\ pc' = [pc EXCEPT ![r] = "write"]
  /\ UNCHANGED <<connectionLimit, users, nextId, held, resp, req>>

\* updateUser, the existence check: SELECT by id; 404 and release when no
\* row matches, else keep the row and go on to the UPDATE.
UpdateSelect(r) ==
  /\ pc[r] = "select"
  /\ LET found == SelectById(users, ParamToId(req[r].id)) IN
       /\ user' = [user EXCEPT ![r] = found]
       /\ IF Len(found) = 0
          THEN /\ Release(r)
               /\ Send(r, Failure(404, "User not found"))
               /\ pc' = [pc EXCEPT ![r] = "done"]
          ELSE /\ pc' = [pc EXCEPT ![r] = "write"]
               /\ UNCHANGED <<held, resp>>
  /\ UNCHANGED <<connectionLimit, users, nextId, req>>

\* The record updateUser answers with: the id parameter, and each field
\* from the body when truthy, else from the row read by the existence check.
Merged(q, row) ==
  [id |-> q.id,
   name |-> IF Truthy(q.name) THEN q.name ELSE row.name,
   email |-> IF Truthy(q.email) THEN q.email ELSE row.email]

\* UpdateWrite that writes the whole merged record, the omitted field from
\* the row the existence check read (UPDATE ... SET name = ?, email = ?).
UpdateWrite_FullRow(r) ==
  /\ pc[r] = "write"
  /\ LET id == ParamToId(req[r].id)
         m == Merged(req[r], user[r][1]) IN
     IF Truthy(req[r].email) /\ AffectedRows(users, id) > 0 /\ DupEmail(users, id, req[r].email)
     THEN /\ Send(r, Failure(409, "Email already exists"))
          /\ UNCHANGED <<users, held>>
     ELSE /\ users' = UpdateRows(users, id, m.name, m.email)
          /\ Release(r)
          /\ IF AffectedRows(users, id) = 0
             THEN Send(r, Failure(404, "User not found"))
             ELSE Send(r, Success(200, "", <<m>>))
  /\ pc' = [pc EXCEPT ![r] = "done"]
  /\ UNCHANGED <<connectionLimit, nextId, req, user>>

\* UpdateWrite as two statements, the name written before the email: the
\* uniqueness violation of the second leaves the first in place.
UpdateWrite_Partial(r) ==
  /\ pc[r] = "write"
  /\ LET id == ParamToId(req[r].id) IN
     IF Truthy(req[r].email) /\ AffectedRows(users, id) > 0 /\ DupEmail(users, id, req[r].email)
     THEN /\ users' = UpdateRows(users, id, req[r].name, NONE)
          /\ Send(r, Failure(409, "Email already exists"))
          /\ UNCHANGED held
     ELSE /\ users' = UpdateRows(users, id, req[r].name, req[r].email)
          /\ Release(r)
          /\ IF AffectedRows(users, id) = 0
             THEN Send(r, Failure(404, "User not found"))
             ELSE Send(r, Success(200, "", <<Merged(req[r], user[r][1])>>))
  /\ pc' = [pc EXCEPT ![r] = "done"]
  /\ UNCHANGED <<connectionLimit, nextId, req, user>>

\* updateUser, the write: UPDATE by id, release, 404 when no row was
\* affected, else 200 with the merged record; a uniqueness violation is
\* caught and answered 409.
UpdateWrite(r) ==
  /\ pc[r] = "write"
  /\ LET id == ParamToId(req[r].id) IN
     IF Truthy(req[r].email) /\ AffectedRows(users, id) > 0 /\ DupEmail(users, id, req[r].email)
     THEN /\ Send(r, Failure(409, "Email already exists"))
          /\ UNCHANGED <<users, held>>
     ELSE /\ users' = UpdateRows(users, id, req[r].name, req[r].email)
          /\ Release(r)
          /\ IF AffectedRows(users, id) = 0
             THEN Send(r, Failure(404, "User not found"))
             ELSE Send(r, Success(200, "", <<Merged(req[r], user[r][1])>>))
  /\ pc' = [pc EXCEPT ![r] = "done"]
  /\ UNCHANGED <<connectionLimit, nextId, req, user>>

\* deleteUser: DELETE by id, release, 404 when no row was affected, else 200.
DeleteQuery(r) ==
  /\ pc[r] = "query" /\ req[r].op = "delete"
  /\ LET id == ParamToId(req[r].id) IN
       /\ users' = DeleteRows(users, id)
       /\ Release(r)
       /\ IF AffectedRows(users, id) = 0
          THEN Send(r, Failure(404, "User not found"))
          ELSE Send(r, Success(200, "User deleted successfully", << >>))
  /\ pc' = [pc EXCEPT ![r] = "done"]
  /\ UNCHANGED <<connectionLimit, nextId, req, user>>

\* One step of one request's task.
Step(r) ==
  \/ GetConnection(r)
  \/ ListQuery(r)
  \/ GetQuery(r)
  \/ CreateQuery(r)
  \/ UpdateSelect(r)
  \/ UpdateWrite(r)
  \/ DeleteQuery(r)

Next ==
  \/ \E r \in Req : Root(r)
  \/ \E r \in Req : Accept(r)
  \/ \E r \in Req : Step(r)
  \/ \E r \in Req : GetConnectionFail(r)
  \/ \E r \in Req : QueryFail(r)

Spec == Init /\ [][Next]_vars

\* Scheduling: the event loop runs every continuation whose await has
\* resolved, and the pool hands a released connection to a waiting request.
FairSpec ==
  /\ Spec
  /\ \A r \in Req : SF_vars(GetConnection(r))
  /\ \A r \in Req : WF_vars(ListQuery(r) \/ GetQuery(r) \/ CreateQuery(r)
                            \/ UpdateSelect(r) \/ UpdateWrite(r) \/ DeleteQuery(r))

(* --------------------------------------------------- notions of the claims *)

\* Request r has been answered, and its answer.
Answered(r) == pc[r] = "done"

Answer(r) == resp[r][1]

\* Request r is between its acceptance and its answer.
InFlight(r) == pc[r] \notin {"idle", "done"}

\* The stored rows with identifier id, and whether a stored row has email e.
RowsOf(tbl, id) == {i \in 1..Len(tbl) : tbl[i].id = id}

Stored(tbl, e) == \E i \in 1..Len(tbl) : tbl[i].email = e

\* Request r takes the step that runs its statement (the one named op, at
\* the position at) and is answered by it, the statement itself not failing
\* with a storage error.
Runs(r, op, at) ==
  /\ req[r].op = op
  /\ pc[r] = at
  /\ pc'[r] = "done"
  /\ resp'[r][1].code # 500

(* ------------------------------------------------------------------ C1 *)

\* C1: every operation has released its connection when it returns, on every
\* exit path: an answered request holds no connection, and with no request
\* in flight no connection is checked out of the pool.
C1_ReleasedOnEveryExit ==
  /\ \A r \in Req : Answered(r) => r \notin held
  /\ (\A r \in Req : ~InFlight(r)) => held = {}

(* ------------------------------------------------------------------ C2 *)

\* Some request's task can take a step (new arrivals apart).
TaskStep == \E s \in Req : Step(s) \/ GetConnectionFail(s) \/ QueryFail(s)

\* C2: every accepted request is eventually answered, exactly once, whatever
\* failures earlier requests ended in: no request is answered twice, and as
\* long as a request is unanswered some task can still take a step (under
\* FairSpec that step is taken, so a state where none can is a request that
\* is never answered).
C2_EveryRequestAnswered ==
  /\ \A r \in Req : Len(resp[r]) = IF Answered(r) THEN 1 ELSE 0
  /\ (\E r \in Req : InFlight(r)) => ENABLED TaskStep

(* ------------------------------------------------------------------ C3 *)

\* Request c is a Create answered 201.
Created(c) == req[c].op = "create" /\ Answered(c) /\ Answer(c).code = 201

\* A write statement of an answered Update or Delete has hit identifier id.
Written(id) ==
  \E u \in Req : /\ req[u].op \in {"update", "delete"}
                 /\ Answered(u)
                 /\ ParamToId(req[u].id) = id
                 /\ Answer(u).code = 200

\* C3: a Create with a non-empty name and an email that is not stored is
\* answered 201 with {id, name, email} as supplied, and a Get-by-id of the
\* returned id, run after it with no write to that user in between, is
\* answered 200 with the supplied name and email (the statements themselves
\* not failing with a storage error).
C3_CreateThenGet ==
  [][ /\ \A c \in Req :
           Runs(c, "create", "query") /\ ~Stored(users, req[c].email) =>
             /\ req[c].name \notin {NONE, ""} /\ req[c].email \notin {NONE, ""}
             /\ resp'[c][1].code = 201
             /\ resp'[c][1].status = "success"
             /\ Len(resp'[c][1].data) = 1
             /\ resp'[c][1].data[1].name = req[c].name
             /\ resp'[c][1].data[1].email = req[c].email
             /\ RowsOf(users, resp'[c][1].data[1].id) = {}
      /\ \A g \in Req : \A c \in Req :
           /\ Runs(g, "get", "query")
           /\ Created(c)
           /\ ParamToId(req[g].id) = Answer(c).data[1].id
           /\ ~Written(Answer(c).data[1].id)
           => /\ resp'[g][1].code = 200
              /\ resp'[g][1].status = "success"
              /\ Len(resp'[g][1].data) = 1
              /\ resp'[g][1].data[1].id = Answer(c).data[1].id
              /\ resp'[g][1].data[1].name = req[c].name
              /\ resp'[g][1].data[1].email = req[c].email
    ]_vars

\* A Create was answered 201 and a later Get-by-id of its id 200.
C3_Witness ==
  \E c \in Req, g \in Req :
    /\ Created(c)
    /\ req[g].op = "get" /\ Answered(g) /\ Answer(g).code = 200
    /\ ParamToId(req[g].id) = Answer(c).data[1].id
    /\ Answer(g).data[1].email = req[c].email
    /\ ~Written(Answer(c).data[1].id)

(* ------------------------------------------------------------------ C4 *)

\* C4: a Create whose email is already stored is answered 409 "Email already
\* exists" (its statement not failing with a storage error), and it leaves
\* the stored users as they were.
C4_DuplicateCreateConflicts ==
  [][ \A r \in Req :
        /\ req[r].op = "create" /\ pc[r] = "query" /\ pc'[r] = "done"
        /\ Stored(users, req[r].email)
        => /\ users' = users
           /\ resp'[r][1].code \in {409, 500}
           /\ resp'[r][1].code = 409 =>
                /\ resp'[r][1].status = "error"
                /\ resp'[r][1].message = "Email already exists"
    ]_vars

\* A Create with a stored email was answered 409.
C4_Witness ==
  \E r \in Req :
    /\ req[r].op = "create" /\ Answered(r) /\ Answer(r).code = 409
    /\ Stored(users, req[r].email)

(* ------------------------------------------------------------------ C5 *)

\* No two stored rows have the same email.
UniqueEmails(tbl) ==
  \A i \in 1..Len(tbl), j \in 1..Len(tbl) : tbl[i].email = tbl[j].email => i = j

\* Request r is at the write statement of a Create or an Update, and the
\* email it writes belongs to a row the statement does not replace.
Collides(r) ==
  \/ /\ req[r].op = "create" /\ pc[r] = "query"
     /\ Stored(users, req[r].email)
  \/ /\ req[r].op = "update" /\ pc[r] = "write"
     /\ RowsOf(users, ParamToId(req[r].id)) # {}
     /\ \E i \in 1..Len(users) : /\ users[i].email = req[r].email
                                 /\ users[i].id # ParamToId(req[r].id)

\* C5: in every reachable state no two stored users have the same email, and
\* a statement that would store a second user with an email is answered 409
\* (or 500 when the statement itself fails), never left unanswered.
C5_EmailsUnique ==
  [][ /\ UniqueEmails(users) /\ UniqueEmails(users')
      /\ \A r \in Req :
           Collides(r) /\ pc'[r] # pc[r] =>
             /\ pc'[r] = "done"
             /\ Len(resp'[r]) = 1
             /\ resp'[r][1].code \in {409, 500}
             /\ resp'[r][1].status = "error"
    ]_vars

\* An Update was refused with 409 while three users with three emails are
\* stored.
C5_Witness ==
  /\ Len(users) = 3
  /\ \E r \in Req : req[r].op = "update" /\ Answered(r) /\ Answer(r).code = 409

(* ------------------------------------------------------------------ C6 *)

\* C6: a Get-by-id or a Delete of an identifier that has no stored row (it
\* was never assigned, or its user was deleted) is answered 404 with status
\* "error" and leaves the stored users as they were.
C6_MissingIdNotFound ==
  [][ \A r \in Req :
        /\ req[r].op \in {"get", "delete"} /\ pc[r] = "query" /\ pc'[r] = "done"
        /\ RowsOf(users, ParamToId(req[r].id)) = {}
        => /\ users' = users
           /\ resp'[r][1].code \in {404, 500}
           /\ resp'[r][1].status = "error"
    ]_vars

\* A Delete was answered 200 and a later Get-by-id or Delete of the same id
\* 404, the table being left as the first Delete left it.
C6_Witness ==
  \E d \in Req, g \in Req :
    /\ req[d].op = "delete" /\ Answered(d) /\ Answer(d).code = 200
    /\ req[g].op \in {"get", "delete"} /\ req[g].id = req[d].id
    /\ Answered(g) /\ Answer(g).code = 404
    /\ RowsOf(users, ParamToId(req[d].id)) = {}
    /\ Len(users) = 1

(* ------------------------------------------------------------------ C7 *)

\* The index of the stored row with identifier id.
IndexOf(tbl, id) == CHOOSE i \in 1..Len(tbl) : tbl[i].id = id

\* C7: the write of an Update that supplies only a name stores that name and
\* leaves the stored email alone, one that supplies only an email stores that
\* email and leaves the stored name alone, and no other row, id or created_at
\* changes; a Get-by-id observes the stored row; the Update's 200 answer
\* carries the supplied field and, for the omitted field, the value the
\* Update read, which is the stored one when the row is still as it was read.
C7_PartialUpdate ==
  [][ /\ \A r \in Req :
           /\ Runs(r, "update", "write")
           /\ RowsOf(users, ParamToId(req[r].id)) # {}
           /\ (req[r].name \in {NONE, ""}) # (req[r].email \in {NONE, ""})
           /\ resp'[r][1].code # 409
           => LET i == IndexOf(users, ParamToId(req[r].id))
                  onlyName == req[r].email \in {NONE, ""}
                  d == resp'[r][1].data[1]
              IN /\ Len(users') = Len(users)
                 /\ \A j \in 1..Len(users) : j # i => users'[j] = users[j]
                 /\ users'[i].id = users[i].id
                 /\ users'[i].created_at = users[i].created_at
                 /\ users'[i].name = IF onlyName THEN req[r].name ELSE users[i].name
                 /\ users'[i].email = IF onlyName THEN users[i].email ELSE req[r].email
                 /\ resp'[r][1].code = 200
                 /\ d.name = IF onlyName THEN req[r].name ELSE user[r][1].name
                 /\ d.email = IF onlyName THEN user[r][1].email ELSE req[r].email
                 /\ user[r][1] = users[i] =>
                      d.name = users'[i].name /\ d.email = users'[i].email
      /\ \A g \in Req :
           /\ Runs(g, "get", "query")
           /\ RowsOf(users, ParamToId(req[g].id)) # {}
           => /\ resp'[g][1].code = 200
              /\ resp'[g][1].data = <<users[IndexOf(users, ParamToId(req[g].id))]>>
    ]_vars

\* An Update of the name alone was answered 200 with the new name and the
\* old email, and a later Get-by-id shows the same.
C7_Witness ==
  \E a \in Req, g \in Req :
    /\ req[a].op = "update" /\ req[a].email = NONE /\ Answered(a) /\ Answer(a).code = 200
    /\ Answer(a).data[1].name = "Test User"
    /\ Answer(a).data[1].email = "john@example.com"
    /\ req[g].op = "get" /\ req[g].id = req[a].id
    /\ Answered(g) /\ Answer(g).code = 200
    /\ Answer(g).data[1].name = "Test User"
    /\ Answer(g).data[1].email = "john@example.com"

(* ------------------------------------------------------------------ C8 *)

\* C8: the write of an Update whose email is the email of another stored
\* user is answered 409 "Email already exists" (its statement not failing
\* with a storage error) and changes no stored row: the name it supplied is
\* not stored either.
C8_UpdateConflictWritesNothing ==
  [][ \A r \in Req :
        /\ req[r].op = "update" /\ pc[r] = "write" /\ pc'[r] = "done"
        /\ RowsOf(users, ParamToId(req[r].id)) # {}
        /\ \E i \in 1..Len(users) : /\ users[i].email = req[r].email
                                    /\ users[i].id # ParamToId(req[r].id)
        => /\ users' = users
           /\ resp'[r][1].code \in {409, 500}
           /\ resp'[r][1].code = 409 =>
                /\ resp'[r][1].status = "error"
                /\ resp'[r][1].message = "Email already exists"
    ]_vars

\* An Update that supplied a new name and another user's email was answered
\* 409, and its target still has its old name.
C8_Witness ==
  \E r \in Req :
    /\ req[r].op = "update" /\ Answered(r) /\ Answer(r).code = 409
    /\ req[r].name = "Test User"
    /\ \E i \in 1..Len(users) : /\ users[i].id = ParamToId(req[r].id)
                                /\ users[i].name = "John Doe"
    /\ \E i \in 1..Len(users) : /\ users[i].id # ParamToId(req[r].id)
                                /\ users[i].email = req[r].email

(* ------------------------------------------------------------------ C9 *)

\* C9: when the row an Update's existence check found is gone at the
\* Update's write, the Update is answered 404, not success, and no row with
\* that id is stored afterwards.
C9_UpdateAfterConcurrentDelete ==
  [][ \A r \in Req :
        /\ req[r].op = "update" /\ pc[r] = "write" /\ pc'[r] = "done"
        /\ Len(user[r]) = 1
        /\ RowsOf(users, ParamToId(req[r].id)) = {}
        => /\ resp'[r][1].code \in {404, 500}
           /\ resp'[r][1].status = "error"
           /\ RowsOf(users', ParamToId(req[r].id)) = {}
    ]_vars

\* An Update whose existence check found the row was answered 404, a Delete
\* of the same id having been answered 200.
C9_Witness ==
  \E r \in Req, d \in Req :
    /\ req[r].op = "update" /\ Answered(r) /\ Answer(r).code = 404
    /\ Len(user[r]) = 1
    /\ req[d].op = "delete" /\ req[d].id = req[r].id
    /\ Answered(d) /\ Answer(d).code = 200

(* ----------------------------------------------------------------- C10 *)

\* C10: an Update that supplies neither name nor email is answered 400 with
\* status "error" as it is accepted, whether or not its id has a stored row;
\* it never holds a connection and the stored users stay as they were.
C10_EmptyUpdateInvalid ==
  [][ \A r \in Req :
        /\ pc[r] = "idle" /\ pc'[r] # "idle"
        /\ req'[r].op = "update"
        /\ req'[r].name \in {NONE, ""} /\ req'[r].email \in {NONE, ""}
        => /\ pc'[r] = "done"
           /\ Len(resp'[r]) = 1
           /\ resp'[r][1].code = 400
           /\ resp'[r][1].status = "error"
           /\ users' = users
           /\ r \notin held'
    ]_vars

\* Two empty Updates were answered 400, one for an id with a stored row and
\* one for an id without.
C10_Witness ==
  \E a \in Req, b \in Req :
    /\ req[a].op = "update" /\ req[a].name = NONE /\ req[a].email = NONE
    /\ req[b].op = "update" /\ req[b].name = NONE /\ req[b].email = NONE
    /\ Answered(a) /\ Answer(a).code = 400
    /\ Answered(b) /\ Answer(b).code = 400
    /\ RowsOf(users, ParamToId(req[a].id)) # {}
    /\ RowsOf(users, ParamToId(req[b].id)) = {}

(* ----------------------------------------------------------------- C11 *)

\* C11: a Create whose name or email is absent or empty is answered 400 with
\* status "error" as it is accepted; no row is inserted, no identifier is
\* assigned and no connection is taken.
C11_InvalidCreate ==
  [][ \A r \in Req :
        /\ pc[r] = "idle" /\ pc'[r] # "idle"
        /\ req'[r].op = "create"
        /\ req'[r].name \in {NONE, ""} \/ req'[r].email \in {NONE, ""}
        => /\ pc'[r] = "done"
           /\ Len(resp'[r]) = 1
           /\ resp'[r][1].code = 400
           /\ resp'[r][1].status = "error"
           /\ users' = users
           /\ nextId' = nextId
           /\ r \notin held'
    ]_vars

\* A Create with an empty name and one with no email were answered 400, and
\* the table and the next identifier are as they were at the start.
C11_Witness ==
  \E a \in Req, b \in Req :
    /\ req[a].op = "create" /\ req[a].name = "" /\ req[a].email = "new@example.com"
    /\ req[b].op = "create" /\ req[b].name = "Test User" /\ req[b].email = NONE
    /\ Answered(a) /\ Answer(a).code = 400
    /\ Answered(b) /\ Answer(b).code = 400
    /\ users = SeedUsers /\ nextId = 3

(* ----------------------------------------------------------------- C12 *)

\* C12: the existence check of an Update (which supplies at least one field,
\* or it would not have reached the check) for an id with no stored row
\* answers 404 there and then, and the table is unchanged, whatever name and
\* email were supplied: also when the email belongs to another user, where
\* the answer is 404 and not 409.
C12_UpdateMissingNotFound ==
  [][ \A r \in Req :
        /\ req[r].op = "update"
        /\ pc[r] = "select" /\ pc'[r] # "select"
        /\ RowsOf(users, ParamToId(req[r].id)) = {}
        => /\ pc'[r] = "done"
           /\ Len(resp'[r]) = 1
           /\ resp'[r][1].code \in {404, 500}
           /\ resp'[r][1].status = "error"
           /\ users' = users
    ]_vars

\* An Update of the missing id 3 that supplies the email of a stored user
\* was answered 404 "User not found", and the table is as it was.
C12_Witness ==
  \E u \in Req :
    /\ req[u].op = "update" /\ req[u].id = "3"
    /\ req[u].email = "jane@example.com"
    /\ Stored(users, "jane@example.com")
    /\ Answered(u) /\ Answer(u).code = 404
    /\ Answer(u).message = "User not found"
    /\ users = SeedUsers

(* ----------------------------------------------------------------- C13 *)

\* C13: the statement of a Delete for a stored id answers 200 and removes
\* exactly that row; a Delete for an id that an earlier Delete removed (ids
\* are never handed out again) answers 404 and leaves the table as the first
\* Delete left it.
C13_DeleteTwice ==
  [][ \A d \in Req :
        Runs(d, "delete", "query")
        => LET id == ParamToId(req[d].id) IN
           /\ RowsOf(users, id) # {}
              => /\ resp'[d] = <<Success(200, "User deleted successfully", << >>)>>
                 /\ RowsOf(users', id) = {}
                 /\ Len(users') = Len(users) - 1
                 /\ \A i \in 1..Len(users) :
                      users[i].id # id => \E j \in 1..Len(users') : users'[j] = users[i]
           /\ (\E f \in Req : /\ f # d /\ req[f].op = "delete" /\ req[f].id = req[d].id
                              /\ Answered(f) /\ Answer(f).code = 200)
              => /\ resp'[d][1].code = 404
                 /\ resp'[d][1].status = "error"
                 /\ users' = users
    ]_vars

\* Two Deletes of id 1: the first accepted was answered 200, the second 404,
\* and the table holds the other seed row only.
C13_Witness ==
  /\ req[1].op = "delete" /\ req[2].op = "delete"
  /\ req[1].id = "1" /\ req[2].id = "1"
  /\ Answered(1) /\ Answer(1).code = 200
  /\ Answered(2) /\ Answer(2).code = 404
  /\ Len(users) = 1 /\ users[1] = SeedUsers[2]

(* ----------------------------------------------------------------- C14 *)

\* The status codes of the wire contract, by operation.
WireCodes(op) ==
  CASE op = "root"   -> {200}
    [] op = "list"   -> {200, 500}
    [] op = "get"    -> {200, 404, 500}
    [] op = "create" -> {201, 400, 409, 500}
    [] op = "update" -> {200, 400, 404, 409, 500}
    [] op = "delete" -> {200, 404, 500}

C15_PoolBounded ==
  /\ Cardinality(held) <= connectionLimit
  /\ \A r \in Req :
       /\ pc[r] \in {"idle", "acquire"} => r \notin held
       /\ pc[r] \in {"query", "select", "write"} => r \in held
       /\ pc[r] = "acquire" /\ Cardinality(held) >= connectionLimit
          => ~ ENABLED (Step(r) \/ GetConnectionFail(r) \/ QueryFail(r))
       /\ pc[r] = "acquire" /\ Cardinality(held) < connectionLimit
          => ENABLED (Step(r) /\ r \in held' /\ pc'[r] # "acquire")

\* With a pool of one, request 1 is at its statement on the only connection
\* and request 2 waits for it.
C15_Witness ==
  /\ connectionLimit = 1
  /\ InFlight(1) /\ held = {1}
  /\ pc[2] = "acquire"

(* ----------------------------------------------------------------- C16 *)

\* C16: when the acquisition of the connection or a statement fails for a
\* reason other than email uniqueness, the request is answered 500 with
\* status "error" and the message of that failure, and the table and the
\* next identifier are as they were before the failing step.
C16_StorageFailure ==
  [][ \A r \in Req :
        GetConnectionFail(r) \/ QueryFail(r)
        => /\ pc'[r] = "done"
           /\ resp'[r] = <<[code |-> 500, status |-> "error",
                            message |-> IF pc[r] = "acquire" THEN ConnectError
                                                             ELSE QueryError,
                            data |-> << >>]>>
           /\ users' = users
           /\ nextId' = nextId
    ]_vars

\* An Update whose existence check found the row and whose UPDATE failed was
\* answered 500 with the failure's message, and a request that got no
\* connection was answered 500 with that failure's; the table is untouched.
C16_Witness ==
  \E u \in Req, g \in Req :
    /\ req[u].op = "update" /\ Len(user[u]) = 1
    /\ Answered(u) /\ Answer(u).code = 500 /\ Answer(u).message = QueryError
    /\ req[g].op \in {"list", "get", "create", "delete"}
    /\ Answered(g) /\ Answer(g).code = 500 /\ Answer(g).message = ConnectError
    /\ users = SeedUsers

(* ----------------------------------------------------------------- C17 *)

\* The identifiers of the rows of a table.
IdsOf(tbl) == {tbl[i].id : i \in 1..Len(tbl)}

\* C17: the id a Create is answered 201 with is that of no stored row, of no
\* seed row and of no earlier Create's answer; no two stored rows ever share
\* an id; a step leaves the id and created_at of every row it keeps as they
\* were (an Update writes name and email only), and a row with a new id comes
\* from the Create answered in that step and from nowhere else.
C17_IdsStable ==
  [][ /\ \A i \in 1..Len(users'), j \in 1..Len(users') :
           users'[i].id = users'[j].id => i = j
      /\ \A c \in Req :
           Runs(c, "create", "query") /\ resp'[c][1].code = 201
           => LET id == resp'[c][1].data[1].id IN
              /\ id \notin IdsOf(users) \cup IdsOf(SeedUsers)
              /\ \A e \in Req : Created(e) => Answer(e).data[1].id # id
              /\ id \in IdsOf(users')
      /\ \A j \in 1..Len(users') :
           /\ \A i \in 1..Len(users) :
                users[i].id = users'[j].id => users[i].created_at = users'[j].created_at
           /\ users'[j].id \notin IdsOf(users)
              => \E c \in Req : /\ Runs(c, "create", "query")
                                /\ resp'[c][1].code = 201
                                /\ resp'[c][1].data[1].id = users'[j].id
      /\ \A u \in Req :
           Runs(u, "update", "write")
           => /\ Len(users') = Len(users)
              /\ \A i \in 1..Len(users) :
                   /\ users'[i].id = users[i].id
                   /\ users'[i].created_at = users[i].created_at
    ]_vars

\* A Delete removed seed row 1, a Create after it was answered 201 with the
\* fresh id 3, and seed row 2 still has its id and created_at.
C17_Witness ==
  \E d \in Req, c \in Req :
    /\ req[d].op = "delete" /\ req[d].id = "1"
    /\ Answered(d) /\ Answer(d).code = 200
    /\ Created(c) /\ Answer(c).data[1].id = 3
    /\ d < c
    /\ IdsOf(users) = {2, 3}
    /\ users[1].created_at = SeedUsers[2].created_at

(* ----------------------------------------------------------------- C18 *)

Decided(e) ==
  {c \in Req : /\ req[c].op = "create" /\ req[c].email = e
               /\ Answered(c) /\ Answer(c).code \in {201, 409}}

C20_UpdateAnswerIsStoredRow ==
  [][ \A u \in Req :
        Runs(u, "update", "write") /\ resp'[u][1].code = 200
        => LET id == ParamToId(req[u].id)
               a == resp'[u][1].data[1] IN
           /\ RowsOf(users', id) # {}
           /\ ParamToId(a.id) = id
           /\ a.name = users'[IndexOf(users', id)].name
           /\ a.email = users'[IndexOf(users', id)].email
    ]_vars

(* ----------------------------------------------------------------- C21 *)

\* C21: of two Updates of the same stored user, one supplying only a name
\* and the other only an email no other user has, with no other request
\* writing, each is answered 200 unless its own statement fails, and once
\* both are answered 200 the stored row has the new name and the new email,
\* in whatever order their checks and writes ran.
C21_DisjointUpdatesMerge ==
  \A a \in Req, b \in Req :
    /\ req[a].op = "update" /\ req[b].op = "update"
    /\ req[a].id = req[b].id
    /\ RowsOf(SeedUsers, ParamToId(req[a].id)) # {}
    /\ Truthy(req[a].name) /\ ~ Truthy(req[a].email)
    /\ ~ Truthy(req[b].name) /\ Truthy(req[b].email)
    /\ ~ Stored(SeedUsers, req[b].email)
    /\ \A w \in Req \ {a, b} : req[w].op \in {"root", "list", "get"}
    => LET id == ParamToId(req[a].id) IN
       /\ Answered(a) => Answer(a).code \in {200, 500}
       /\ Answered(b) => Answer(b).code \in {200, 500}
       /\ Answered(a) /\ Answer(a).code = 200 /\ Answered(b) /\ Answer(b).code = 200
          => /\ RowsOf(users, id) # {}
             /\ users[IndexOf(users, id)].name = req[a].name
             /\ users[IndexOf(users, id)].email = req[b].email

\* A name-only and an email-only Update of user 1 both read the seed row in
\* their existence checks before either wrote, both were answered 200, and
\* the row has the new name and the new email.
C21_Witness ==
  \E a \in Req, b \in Req :
    /\ req[a].op = "update" /\ req[b].op = "update"
    /\ req[a].id = "1" /\ req[b].id = "1"
    /\ req[a].name = "Test User" /\ req[a].email = NONE
    /\ req[b].name = NONE /\ req[b].email = "new@example.com"
    /\ user[a] = <<SeedUsers[1]>> /\ user[b] = <<SeedUsers[1]>>
    /\ Answered(a) /\ Answer(a).code = 200
    /\ Answered(b) /\ Answer(b).code = 200
    /\ users[1].name = "Test User" /\ users[1].email = "new@example.com"

(* ----------------------------------------------------------------- C22 *)

\* C22: the write of an Update whose supplied fields are already the stored
\* ones of its row (as after the same Update was applied once, or when the
\* email supplied is the user's own) answers 200, not 409 and not 404, and
\* leaves the table as it was.
C22_UpdateIdempotent ==
  [][ \A u \in Req :
        /\ Runs(u, "update", "write")
        /\ RowsOf(users, ParamToId(req[u].id)) # {}
        /\ LET row == users[IndexOf(users, ParamToId(req[u].id))] IN
           /\ Truthy(req[u].name) => row.name = req[u].name
           /\ Truthy(req[u].email) => row.email = req[u].email
        => /\ resp'[u][1].code = 200
           /\ resp'[u][1].status = "success"
           /\ users' = users
    ]_vars

\* The same Update of user 1, supplying name and email, was applied twice in
\* a row: the second read the row the first had written, so supplied the
\* user's own email; both were answered 200 and the row is as the first
\* left it.
C22_Witness ==
  /\ req[1] = req[2]
  /\ req[1].op = "update" /\ req[1].id = "1"
  /\ req[1].name = "Test User" /\ req[1].email = "new@example.com"
  /\ Answered(1) /\ Answer(1).code = 200
  /\ user[2] = <<[SeedUsers[1] EXCEPT !.name = "Test User", !.email = "new@example.com"]>>
  /\ Answered(2) /\ Answer(2).code = 200
  /\ users[1] = user[2][1]

====
